---- MODULE Spec2Model ----
(***************************************************************************)
(* The multi-target extraction engine of AI-Compare_Service:               *)
(* UnifiedNorwayMobileParser (unified_parser.py).  One asyncio task per    *)
(* operator runs parse_operator; parse_all_operators gathers the tasks and *)
(* merges what they returned.  A step of a task is the code between two    *)
(* awaits (a GET, a backoff sleep), which asyncio runs without preemption. *)
(* Parts of it are also run on their own: one _fetch_with_retry call       *)
(* (FetchSpec), the analyzers and the extractor on one document            *)
(* (MarkupSpec), detect_cookie_banner of several_site_analyzer.py          *)
(* (ConsentSpec) and the record loop of scraper.py (ScrapeSpec).           *)
(***************************************************************************)
EXTENDS Integers, Sequences, FiniteSets, TLC

\* Number of configured operators the run is checked with (the first
\* NumTargets keys of operators_config, in insertion order).
NumTargets == 2

\* Default of the max_retries parameter of _fetch_with_retry.
DefaultMaxRetries == 3

Targets == 1 .. NumTargets

\* operators_config: key and display name per target, in insertion order.
OperatorKeys == <<"telia", "telenor", "ice", "mycall">>
OperatorNames == <<"Telia", "Telenor", "Ice", "MyCall">>

\* The alternatives of fallback_selectors['plan_cards'], split on ', '.
FallbackPlanCards(t) ==
    CASE t = 1 -> <<".product-card", ".plan-card", "[data-testid*=plan]">>
      [] t = 2 -> <<".product-card", ".plan-item", "[data-cy*=plan]">>
      [] t = 3 -> <<".plan-card", ".product-item">>
      [] OTHER -> <<".plan-box", ".offer-card">>

\* config[...] of one operator.
Config(t) ==
    [key |-> OperatorKeys[t], name |-> OperatorNames[t],
     fallback_selectors |->
        [plan_cards |-> FallbackPlanCards(t),
         plan_name |-> CASE t = 1 -> "h3, .plan-name, .product-title"
                         [] t = 2 -> "h3, .plan-title, .product-name"
                         [] t = 3 -> "h3, .plan-name, .title"
                         [] OTHER -> "h3, .plan-title",
         price |-> CASE t = 1 -> ".price, .monthly-price, [data-testid*=price]"
                     [] t = 2 -> ".price, .amount, [data-cy*=price]"
                     [] t = 3 -> ".price, .cost, .monthly-fee"
                     [] OTHER -> ".price, .monthly-price",
         data |-> CASE t = 1 -> ".data-amount, .gb-amount, [data-testid*=data]"
                    [] t = 2 -> ".data-text, .gb-text, [data-cy*=data]"
                    [] t = 3 -> ".data-limit, .gb-limit"
                    [] OTHER -> ".data-amount, .gb-info"]]

-----------------------------------------------------------------------------
(* Markup.  A response body is one of a few pages; a page is the list of    *)
(* its elements in document order.  An element carries its class tokens,   *)
(* the keywords of the confidence score found in its text, and, per role,  *)
(* what select_one finds for each alternative selector of the role         *)
(* (NoElem when the selector matches nothing below the element).            *)

NoElem == "<no element>"
None == "None"
NotCalled == "<not called>"

\* The bodies a GET can return with status 200.
\*   empty       : a 200 response with an empty body ("" is falsy)
\*   no_cards    : a page with no plan card
\*   plan_cards  : the two cards of the end-to-end scenario
\*   product     : two product cards, the second without a name element
\*   malformed   : markup the HTML parser rejects (BeautifulSoup raises)
PageIds == {"empty", "no_cards", "plan_cards", "product", "malformed"}

Elem(cls, kw, name, price, data) ==
    [cls |-> cls, kw |-> kw, name |-> name, price |-> price, data |-> data]

PageElements(p) ==
    CASE p = "plan_cards" ->
           << Elem({"plan-card"}, {"kr", "gb"},
                   <<"Telia Frihet", NoElem, NoElem>>, <<"299 kr">>, <<"50 GB">>),
              Elem({"plan-card"}, {"kr", "gb"},
                   <<" Telia  Smart ", NoElem, NoElem>>, <<"199 kr">>, <<"10 GB">>) >>
      [] p = "product" ->
           << Elem({"product-card"}, {"kr", "gb", "mobil", "abonnement"},
                   <<"Telia Frihet", NoElem, NoElem>>, <<"kr 349">>, <<"ubegrenset data">>),
              Elem({"product-card"}, {"kr", "gb", "mobil", "abonnement"},
                   <<NoElem, NoElem, NoElem>>, <<"99,50 kr">>, <<NoElem>>) >>
      [] OTHER -> << >>

\* bool(html): an empty string is falsy.
Truthy(html) == html \notin {None, "empty"}

\* BeautifulSoup(html, 'html.parser') raises on markup the parser rejects.
ParserRaises(html) == html = "malformed"

ParserError == "ParserRejectedMarkup"

-----------------------------------------------------------------------------
(* Text Normalizer, on the texts that occur in the pages.                   *)

\* _clean_text: runs of whitespace collapse to one space, ends are trimmed.
CleanTextOf(text) ==
    CASE text = " Telia  Smart " -> "Telia Smart"
      [] text = NoElem -> ""
      [] OTHER -> text

\* _extract_price: first pattern that matches gives "<amount> kr", the comma
\* of the amount replaced by a dot; otherwise the cleaned text.
ExtractPrice(text) ==
    CASE text = "" -> ""
      [] text = "kr 349" -> "349 kr"
      [] text = "99,50 kr" -> "99.50 kr"
      [] OTHER -> CleanTextOf(text)

\* _extract_data_amount: an unlimited keyword gives "Unlimited"; else
\* "<amount> <unit>"; otherwise the cleaned text.
ExtractDataAmount(text) ==
    CASE text = "" -> ""
      [] text = "ubegrenset data" -> "Unlimited"
      [] OTHER -> CleanTextOf(text)

-----------------------------------------------------------------------------
(* Selectors: ".x" (class token), "[class*=x]" (substring of the class     *)
(* attribute) and attribute-substring selectors on data-* attributes,      *)
(* which no element of the pages carries.                                  *)

ClassSelectors ==
    {".product-card", ".plan-card", ".plan-item", ".product-item", ".plan-box",
     ".offer-card", ".plan", ".product", ".card", ".subscription",
     ".abonnement", ".offer", ".package", ".tariff", ".mobile-plan"}

\* The class token a class selector names.
ClassToken(sel) ==
    CASE sel = ".product-card" -> "product-card"
      [] sel = ".plan-card" -> "plan-card"
      [] sel = ".plan-item" -> "plan-item"
      [] sel = ".product-item" -> "product-item"
      [] sel = ".plan-box" -> "plan-box"
      [] sel = ".offer-card" -> "offer-card"
      [] sel = ".plan" -> "plan"
      [] sel = ".product" -> "product"
      [] sel = ".card" -> "card"
      [] sel = ".subscription" -> "subscription"
      [] sel = ".abonnement" -> "abonnement"
      [] sel = ".offer" -> "offer"
      [] sel = ".package" -> "package"
      [] sel = ".mobile-plan" -> "mobile-plan"
      [] OTHER -> "tariff"

\* The class tokens that contain the substring a [class*=x] selector names.
ClassesContaining(sel) ==
    CASE sel = "[class*=plan]" ->
           {"plan", "plan-card", "plan-item", "plan-box", "mobile-plan"}
      [] sel = "[class*=product]" -> {"product", "product-card", "product-item"}
      [] sel = "[class*=card]" -> {"card", "plan-card", "product-card", "offer-card"}
      [] sel = "[class*=subscription]" -> {"subscription"}
      [] OTHER -> {}

\* Whether soup.select(sel) includes the element.
Matches(sel, elem) ==
    IF sel \in ClassSelectors
    THEN ClassToken(sel) \in elem.cls
    ELSE elem.cls \cap ClassesContaining(sel) # {}

\* soup.select(sel): the positions of the matching elements, document order.
RECURSIVE SelectFrom(_, _, _)
SelectFrom(elems, sel, i) ==
    IF i > Len(elems) THEN << >>
    ELSE (IF Matches(sel, elems[i]) THEN <<i>> ELSE << >>)
         \o SelectFrom(elems, sel, i + 1)

Select(elems, sel) == SelectFrom(elems, sel, 1)

-----------------------------------------------------------------------------
(* Structure Analyzer.                                                      *)

\* container_patterns of _analyze_plan_containers.
ContainerPatterns ==
    <<".plan", ".product", ".card", ".subscription", ".abonnement", ".offer",
      ".package", ".tariff", "[class*=plan]", "[class*=product]",
      "[class*=subscription]">>

\* keywords of _calculate_container_confidence.
ConfidenceKeywords == {"kr", "gb", "plan", "mobil", "abonnement", "maaned"}

Min(a, b) == IF a < b THEN a ELSE b

RECURSIVE KeywordHits(_, _, _)
KeywordHits(elems, idx, n) ==
    IF n = 0 THEN 0
    ELSE Cardinality(elems[idx[n]].kw \cap ConfidenceKeywords)
         + KeywordHits(elems, idx, n - 1)

\* Mutant of CalculateContainerConfidence: the sum is not divided by the
\* number of elements it was taken over.
ConfidenceSum(elems, idx) ==
    IF idx = << >> THEN [num |-> 0, den |-> 1]
    ELSE [num |-> KeywordHits(elems, idx, Min(Len(idx), 3)),
          den |-> Cardinality(ConfidenceKeywords)]

\* _calculate_container_confidence, as the fraction num/den:
\* (sum over the first 3 elements of hits/len(keywords)) / min(len, 3).
CalculateContainerConfidence(elems, idx) ==
    IF idx = << >> THEN [num |-> 0, den |-> 1]
    ELSE [num |-> KeywordHits(elems, idx, Min(Len(idx), 3)),
          den |-> Cardinality(ConfidenceKeywords) * Min(Len(idx), 3)]

\* len(elements) >= 2: the minimum for a pattern to become a candidate.
IsCandidate(idx) == Len(idx) >= 2

RECURSIVE CandidatesFrom(_, _)
CandidatesFrom(elems, k) ==
    IF k > Len(ContainerPatterns) THEN << >>
    ELSE LET idx == Select(elems, ContainerPatterns[k])
         IN (IF IsCandidate(idx)
             THEN << [selector |-> ContainerPatterns[k], count |-> Len(idx),
                      confidence |-> CalculateContainerConfidence(elems, idx)] >>
             ELSE << >>)
            \o CandidatesFrom(elems, k + 1)

\* Mutant of ConfGreater: the order of a sort without reverse=True.
ConfLess(a, b) == a.num * b.den < b.num * a.den

\* Whether confidence a sorts before confidence b.
ConfGreater(a, b) == a.num * b.den > b.num * a.den

\* sorted(containers, key=confidence, reverse=True): stable, so candidates of
\* equal confidence keep the order of container_patterns.
RECURSIVE InsertDesc(_, _)
InsertDesc(sorted, c) ==
    IF sorted = << >> THEN <<c>>
    ELSE IF ConfGreater(c.confidence, Head(sorted).confidence)
         THEN <<c>> \o sorted
         ELSE <<Head(sorted)>> \o InsertDesc(Tail(sorted), c)

RECURSIVE SortDesc(_)
SortDesc(cs) ==
    IF cs = << >> THEN << >>
    ELSE InsertDesc(SortDesc(SubSeq(cs, 1, Len(cs) - 1)), cs[Len(cs)])

AnalyzePlanContainers(elems) == SortDesc(CandidatesFrom(elems, 1))

\* Mutant of OptimizeSelectors: the best candidate's selector is taken from
\* confidence 0.5 on.
OptimizeAtHalf(containers, fallback) ==
    IF containers # << >> /\ 2 * containers[1].confidence.num >= containers[1].confidence.den
    THEN [fallback EXCEPT !.plan_cards = <<containers[1].selector>>]
    ELSE fallback

\* _optimize_selectors: the fallback set, its plan_cards replaced by the best
\* candidate's selector when that candidate's confidence is > 0.5.
OptimizeSelectors(containers, fallback) ==
    IF containers # << >> /\ 2 * containers[1].confidence.num > containers[1].confidence.den
    THEN [fallback EXCEPT !.plan_cards = <<containers[1].selector>>]
    ELSE fallback

\* optimized = fallback_selectors.copy(): the assignment goes to a copy.
CopiesFallback == TRUE

\* The configured fallback_selectors dict after _optimize_selectors: without
\* the copy the assignment would be to the configured dict itself.
FallbackAfter(containers, fallback) ==
    IF CopiesFallback THEN fallback ELSE OptimizeSelectors(containers, fallback)

\* container_selectors of SiteStructureAnalyzer.analyze_page.
ContainerSelectors ==
    <<".plan", ".product", ".card", ".subscription", ".abonnement", ".offer",
      ".package", ".tariff", ".mobile-plan", "[class*=plan]", "[class*=product]",
      "[class*=card]", "[class*=subscription]", "[id*=plan]">>

\* SiteStructureAnalyzer.analyze_page: potential_plan_containers, one entry
\* per selector that matches anything, in the order of container_selectors.
RECURSIVE PotentialPlanContainers(_, _)
PotentialPlanContainers(elems, k) ==
    IF k > Len(ContainerSelectors) THEN << >>
    ELSE LET idx == Select(elems, ContainerSelectors[k])
         IN (IF idx # << >>
             THEN << [selector |-> ContainerSelectors[k], count |-> Len(idx)] >>
             ELSE << >>)
            \o PotentialPlanContainers(elems, k + 1)

\* The SiteAnalysis analyze_site_structure returns when its fetch failed.
FailedAnalysis(t) ==
    [name |-> Config(t).name, status |-> "failed", plan_containers |-> << >>,
     optimal_selectors |-> Config(t).fallback_selectors]

\* The SiteAnalysis analyze_site_structure builds from the parsed markup.
AnalysisOf(t, elems) ==
    [name |-> Config(t).name, status |-> "success",
     plan_containers |-> AnalyzePlanContainers(elems),
     optimal_selectors |->
        OptimizeSelectors(AnalyzePlanContainers(elems), Config(t).fallback_selectors)]

\* The SiteAnalysis analyze_site_structure returns for fetched markup.
SuccessAnalysis(t, html) == AnalysisOf(t, PageElements(html))

-----------------------------------------------------------------------------
(* Field Extractor.                                                         *)

\* The name the extractor gives a plan whose name element is missing.
Unspecified == "unspecified"

\* _extract_from_element: the text of the first alternative that matches.
RECURSIVE ExtractFromElement(_)
ExtractFromElement(alts) ==
    IF alts = << >> THEN ""
    ELSE IF Head(alts) # NoElem THEN CleanTextOf(Head(alts))
         ELSE ExtractFromElement(Tail(alts))

\* plan_elements: the matches of each plan_cards alternative, concatenated.
RECURSIVE PlanElements(_, _)
PlanElements(elems, sels) ==
    IF sels = << >> THEN << >>
    ELSE Select(elems, Head(sels)) \o PlanElements(elems, Tail(sels))

Or(text, default) == IF text = "" THEN default ELSE text

\* What _extract_from_element gives for the three roles of element e.
TextsOf(e) ==
    [name |-> ExtractFromElement(e.name),
     price |-> ExtractFromElement(e.price),
     data |-> ExtractFromElement(e.data)]

\* Mutant of HasBasicInfo: an element with no name gives no plan.
NameRequired(name, price, data) == name # ""

\* if name or price or data
HasBasicInfo(name, price, data) == name # "" \/ price # "" \/ data # ""

\* The plans the loop over plan_elements appends.
RECURSIVE PlansOf(_, _, _)
PlansOf(elems, idx, operator) ==
    IF idx = << >> THEN << >>
    ELSE LET e == elems[Head(idx)]
             name == TextsOf(e).name
             price == ExtractPrice(TextsOf(e).price)
             data == ExtractDataAmount(TextsOf(e).data)
         IN (IF HasBasicInfo(name, price, data)
             THEN << [name |-> Or(name, Unspecified), operator |-> operator,
                      price |-> Or(price, Unspecified),
                      data |-> Or(data, Unspecified)] >>
             ELSE << >>)
            \o PlansOf(elems, Tail(idx), operator)

\* _parse_plans_from_html: a parser error is caught and leaves no plans.
ParsePlansFromHtml(html, analysis) ==
    IF ParserRaises(html) THEN << >>
    ELSE PlansOf(PageElements(html),
                 PlanElements(PageElements(html), analysis.optimal_selectors.plan_cards),
                 analysis.name)

-----------------------------------------------------------------------------
(* _fetch_with_retry, as the steps of one call.  A frame is the call's      *)
(* position: status "get" (an attempt's GET is in flight), "sleep" (the     *)
(* backoff sleep is in flight), "returned" (with result) or "raised" (with  *)
(* the exception that left the call).                                       *)

\* How a GET attempt can fail: a status other than 200, asyncio.TimeoutError,
\* any other exception of the HTTP client.
FailureKinds == {"http_error", "timeout", "client_error"}

Frame(status, a, result, exc) ==
    [status |-> status, attempt |-> a, result |-> result, exc |-> exc]

NoFrame == Frame("none", 0, NotCalled, "")

\* Mutant of InRange: a loop bound that is off by one.
InRangeInclusive(a, max_retries) == a <= max_retries

\* for attempt in range(max_retries): whether the loop runs attempt a.
InRange(a, max_retries) == a < max_retries

\* Mutant of ShouldSleep: the sleep follows the final attempt too.
ShouldSleepAlways(a, max_retries) == a < max_retries

\* if attempt < max_retries - 1: the backoff sleep follows a failed attempt.
ShouldSleep(a, max_retries) == a < max_retries - 1

\* Mutant of SleepSeconds: a linear backoff.
SleepLinear(a) == 2 * a

\* asyncio.sleep(2 ** attempt)
SleepSeconds(a) == 2 ^ a

\* Mutant of Handled: the try statement without its except Exception clause.
HandledWithoutCatchAll(kind) == kind \in {"http_error", "timeout"}

\* The failures the try statement absorbs: the else branch of the status
\* test, except asyncio.TimeoutError, except Exception.
Handled(kind) == kind \in {"http_error", "timeout", "client_error"}

\* The exception a failure kind would raise past the call.
ExceptionOf(kind) == IF kind = "timeout" THEN "TimeoutError" ELSE "ClientError"

\* The loop moves to attempt a: the next GET, or return None after the range.
LoopTo(a, max_retries) ==
    IF InRange(a, max_retries)
    THEN Frame("get", a, NotCalled, "")
    ELSE Frame("returned", a, None, "")

\* The call begins.
EnterFetch(max_retries) == LoopTo(0, max_retries)

\* Mutant of AfterOk: a 200 falls through to the backoff like a failure.
AfterOkFallsThrough(fr, b) == Frame("sleep", fr.attempt, NotCalled, "")

\* status == 200: return content.
AfterOk(fr, b) == Frame("returned", fr.attempt, b, "")

\* The attempt failed: absorbed, then the sleep or the next iteration.
AfterFailure(fr, kind, max_retries) ==
    IF ~Handled(kind)
    THEN Frame("raised", fr.attempt, NotCalled, ExceptionOf(kind))
    ELSE IF ShouldSleep(fr.attempt, max_retries)
         THEN Frame("sleep", fr.attempt, NotCalled, "")
         ELSE LoopTo(fr.attempt + 1, max_retries)

\* The sleep ended: the next iteration.
AfterSleep(fr, max_retries) == LoopTo(fr.attempt + 1, max_retries)

-----------------------------------------------------------------------------
(* State.                                                                   *)

VARIABLES
    runPc,          \* parse_all_operators: "init", "gathering", "done", "raised"
    pc,             \* per task: the stage parse_operator is in
    call,           \* per task: 0, or which _fetch_with_retry call it is in:
                    \*   1 = analyze_site_structure's, 2 = parse_operator's
    frame,          \* per task: the frame of its running _fetch_with_retry call
    body,           \* per task: what call 1 and call 2 returned
    site_analysis,  \* self.site_analysis
    results,        \* what gather holds for each task
    plans,          \* self.plans, the list parse_all_operators returns
    finished,       \* the tasks that ended, in the order in which they ended
    args,           \* main: the command line (--analyze-only, --operator)
    probe,          \* one _fetch_with_retry call observed on its own
    bench,          \* one parsed document under analysis and extraction
    consent,        \* one detect_cookie_banner call (several_site_analyzer.py)
    scrape,         \* one fetch_and_process_page call (scraper.py)
    amount,         \* one _extract_data_amount call: its text and what it returned
    pages,          \* fetch_and_process_page calls that share one seen_names set
    crawl           \* one WebsiteDiagnostic.crawl_website call

vars == <<runPc, pc, call, frame, body, site_analysis, results, plans, finished,
          args, probe, bench, consent, scrape, amount, pages, crawl>>

runVars == <<runPc, pc, call, frame, body, site_analysis, results, plans, finished,
             args>>

\* The variables parse_all_operators and its tasks never touch.
auxVars == <<args, probe, bench, consent, scrape, amount, pages, crawl>>

NoAnalysis ==
    [name |-> "", status |-> "absent", plan_containers |-> << >>,
     optimal_selectors |-> [plan_cards |-> << >>]]

PendingResult == [kind |-> "pending", plans |-> << >>, exc |-> ""]
ValueResult(ps) == [kind |-> "value", plans |-> ps, exc |-> ""]
ExceptionResult(e) == [kind |-> "exception", plans |-> << >>, exc |-> e]

\* The observed call: its max_retries argument, its frame, and a log of the
\* GETs it issued (their outcomes, in order) and the sleeps it completed.
Probe(m, fr, outcomes, slept) ==
    [max_retries |-> m, frame |-> fr, outcomes |-> outcomes, slept |-> slept]

NoProbe == Probe(0, NoFrame, << >>, << >>)

\* The document on the bench: the target t whose configuration is used, the
\* parsed elements (soup), how far it was processed (stage), and what the
\* analyzers and the extractor returned for it.
Bench(t, soup, stage, analysis, potential, plan_elements, texts, ps) ==
    [t |-> t, fallback |-> Config(t).fallback_selectors,
     soup |-> soup, stage |-> stage, analysis |-> analysis,
     potential |-> potential, plan_elements |-> plan_elements,
     texts |-> texts, plans |-> ps]

NoBench == Bench(1, << >>, "none", NoAnalysis, << >>, << >>, << >>, << >>)

\* No target chosen with --operator.
AllOperators == 0

NoAmount == [stage |-> "none", text |-> << >>, parser |-> "", returned |-> << >>]

NoPages == [stage |-> "none", model_type |-> "", seen_names |-> {}, inv |-> << >>]

NoCrawl ==
    [stage |-> "none", max_pages |-> 0, urls_to_visit |-> << >>,
     visited_urls |-> {}, checked |-> << >>, broken_links |-> << >>]

NoArgs == [analyze_only |-> FALSE, operator |-> AllOperators]

\* The parser as constructed.
ParserInit ==
    /\ runPc = "init"
    /\ pc = [t \in Targets |-> "Pending"]
    /\ call = [t \in Targets |-> 0]
    /\ frame = [t \in Targets |-> NoFrame]
    /\ body = [t \in Targets |-> <<NotCalled, NotCalled>>]
    /\ site_analysis = [t \in Targets |-> NoAnalysis]
    /\ results = [t \in Targets |-> PendingResult]
    /\ plans = << >>
    /\ finished = << >>

RunInit == ParserInit /\ args = NoArgs

\* No cookie-banner detection and no scraper call under way.
NoConsent == [stage |-> "none", doc |-> << >>, text_indicators |-> << >>,
              banner_elements |-> << >>, accept_buttons |-> << >>,
              detected |-> FALSE]

\* A fetch_and_process_page call from the point where extracted_data is
\* parsed: model_type, the records as extracted, the index i of the record
\* the loop is at, seen_names, all_records; origin (which extracted record
\* each kept record is), lookups (what each fetch_trustpilot_reviews call
\* met and returned) and direct (one extract_trustpilot_data call made on
\* its own) are logs.
NoScrape ==
    [stage |-> "none", model_type |-> "", extracted |-> << >>, i |-> 1,
     seen_names |-> {}, all_records |-> << >>, origin |-> << >>,
     lookups |-> << >>, direct |-> << >>]

Init ==
    /\ RunInit
    /\ probe = NoProbe
    /\ bench = NoBench
    /\ consent = NoConsent
    /\ scrape = NoScrape
    /\ amount = NoAmount
    /\ pages = NoPages
    /\ crawl = NoCrawl

-----------------------------------------------------------------------------
(* parse_operator, one task per target.                                     *)

\* The caller's code after call[t] of task t returned r, up to its next await.
\*   call 1 (analyze_site_structure, then parse_operator lines 421-426):
\*     falsy -> the failed SiteAnalysis is stored and ([], analysis) returned
\*     else  -> the markup goes to the analysis
\*   call 2 (parse_operator lines 429-435):
\*     falsy -> ([], analysis) returned;  else -> the markup goes to extraction
FetchReturns(t, r) ==
    /\ body' = [body EXCEPT ![t][call[t]] = r]
    /\ frame' = [frame EXCEPT ![t] = NoFrame]
    /\ IF Truthy(r)
       THEN /\ pc' = [pc EXCEPT ![t] = IF call[t] = 1 THEN "Analyzing" ELSE "Extracting"]
            /\ UNCHANGED <<site_analysis, results>>
       ELSE /\ pc' = [pc EXCEPT ![t] = "Returned"]
            /\ results' = [results EXCEPT ![t] = ValueResult(<< >>)]
            /\ site_analysis' =
                 IF call[t] = 1
                 THEN [site_analysis EXCEPT ![t] = FailedAnalysis(t)]
                 ELSE site_analysis

\* Task t goes on from frame fr of its fetch call.
FetchMoves(t, fr) ==
    CASE fr.status = "returned" -> FetchReturns(t, fr.result)
      [] fr.status = "raised" ->
            /\ pc' = [pc EXCEPT ![t] = "Raised"]
            /\ results' = [results EXCEPT ![t] = ExceptionResult(fr.exc)]
            /\ frame' = [frame EXCEPT ![t] = NoFrame]
            /\ UNCHANGED <<body, site_analysis>>
      [] OTHER ->
            /\ frame' = [frame EXCEPT ![t] = fr]
            /\ UNCHANGED <<pc, body, site_analysis, results>>

\* The step of task t just taken ended the task, or did not: the event loop
\* sees the tasks end one after another.
Ends(t) ==
    finished' = IF pc'[t] \in {"Returned", "Raised"}
                THEN Append(finished, t)
                ELSE finished

\* parse_all_operators creates one task per operator and awaits gather.
Start ==
    /\ runPc = "init"
    /\ runPc' = "gathering"
    /\ UNCHANGED <<pc, call, frame, body, site_analysis, results, plans, finished,
                   auxVars>>

\* Task t starts: parse_operator calls analyze_site_structure, which calls
\* _fetch_with_retry(config['url']).
Begin(t) ==
    /\ runPc = "gathering"
    /\ pc[t] = "Pending"
    /\ call' = [call EXCEPT ![t] = 1]
    /\ pc' = [pc EXCEPT ![t] = "Fetching"]
    /\ frame' = [frame EXCEPT ![t] = EnterFetch(DefaultMaxRetries)]
    /\ UNCHANGED <<runPc, body, site_analysis, results, plans, finished, auxVars>>

\* An attempt's GET answers 200 and response.text() gives body b.
GetOk(t, b) ==
    /\ pc[t] = "Fetching"
    /\ frame[t].status = "get"
    /\ FetchMoves(t, AfterOk(frame[t], b))
    /\ Ends(t)
    /\ UNCHANGED <<runPc, call, plans, auxVars>>

\* An attempt's GET fails.
GetFail(t, kind) ==
    /\ pc[t] = "Fetching"
    /\ frame[t].status = "get"
    /\ FetchMoves(t, AfterFailure(frame[t], kind, DefaultMaxRetries))
    /\ Ends(t)
    /\ UNCHANGED <<runPc, call, plans, auxVars>>

\* The backoff sleep of task t ends.
Sleep(t) ==
    /\ pc[t] = "Fetching"
    /\ frame[t].status = "sleep"
    /\ FetchMoves(t, AfterSleep(frame[t], DefaultMaxRetries))
    /\ Ends(t)
    /\ UNCHANGED <<runPc, call, plans, auxVars>>

\* analyze_site_structure lines 309-338 on the markup of call 1, then
\* parse_operator stores the analysis and calls _fetch_with_retry again.
Analyze(t) ==
    /\ pc[t] = "Analyzing"
    /\ IF ParserRaises(body[t][1])
       THEN /\ pc' = [pc EXCEPT ![t] = "Raised"]
            /\ results' = [results EXCEPT ![t] = ExceptionResult(ParserError)]
            /\ UNCHANGED <<call, frame, site_analysis>>
       ELSE /\ site_analysis' = [site_analysis EXCEPT ![t] = SuccessAnalysis(t, body[t][1])]
            /\ call' = [call EXCEPT ![t] = 2]
            /\ pc' = [pc EXCEPT ![t] = "Fetching"]
            /\ frame' = [frame EXCEPT ![t] = EnterFetch(DefaultMaxRetries)]
            /\ UNCHANGED results
    /\ Ends(t)
    /\ UNCHANGED <<runPc, body, plans, auxVars>>

\* parse_operator parses the markup of call 2 and returns (plans, analysis).
Extract(t) ==
    /\ pc[t] = "Extracting"
    /\ results' = [results EXCEPT ![t] =
                     ValueResult(ParsePlansFromHtml(body[t][2], site_analysis[t]))]
    /\ pc' = [pc EXCEPT ![t] = "Returned"]
    /\ Ends(t)
    /\ UNCHANGED <<runPc, call, frame, body, site_analysis, plans, auxVars>>

-----------------------------------------------------------------------------
(* parse_all_operators: the merge.                                          *)

\* Mutant of ReturnExceptions: gather called without return_exceptions.
NoReturnExceptions == FALSE

\* asyncio.gather(*tasks, return_exceptions=True)
ReturnExceptions == TRUE

\* Mutant of GatherResults: the results in the order in which the tasks
\* ended, as asyncio.as_completed gives them.
ResultsAsCompleted(res, fin) == [i \in Targets |-> res[fin[i]]]

\* What gather returns when every task ended: the results in the order of the
\* awaitables passed to it, whatever the order fin in which they ended.
GatherResults(res, fin) == [i \in Targets |-> res[i]]

\* The loop over results: an exception is logged, a value's plans are
\* appended to all_plans.
RECURSIVE MergeFrom(_, _)
MergeFrom(res, i) ==
    IF i > NumTargets THEN << >>
    ELSE (IF res[i].kind = "exception" THEN << >> ELSE res[i].plans)
         \o MergeFrom(res, i + 1)

\* Mutant of MergePlans: the loop ends at the first exception it meets.
RECURSIVE MergeUntilException(_, _)
MergeUntilException(res, i) ==
    IF i > NumTargets \/ res[i].kind = "exception" THEN << >>
    ELSE res[i].plans \o MergeUntilException(res, i + 1)

MergePlansUntilException(res) == MergeUntilException(res, 1)

MergePlans(res) == MergeFrom(res, 1)

\* gather has every task's result; parse_all_operators merges and returns.
Merge ==
    /\ runPc = "gathering"
    /\ \A t \in Targets : pc[t] \in {"Returned", "Raised"}
    /\ IF ~ReturnExceptions /\ \E t \in Targets : results[t].kind = "exception"
       THEN runPc' = "raised" /\ UNCHANGED plans
       ELSE runPc' = "done" /\ plans' = MergePlans(GatherResults(results, finished))
    /\ UNCHANGED <<pc, call, frame, body, site_analysis, results, finished, auxVars>>

Next ==
    \/ Start
    \/ \E t \in Targets : Begin(t)
    \/ \E t \in Targets : \E b \in PageIds : GetOk(t, b)
    \/ \E t \in Targets : \E kind \in FailureKinds : GetFail(t, kind)
    \/ \E t \in Targets : Sleep(t)
    \/ \E t \in Targets : Analyze(t)
    \/ \E t \in Targets : Extract(t)
    \/ Merge

Spec == Init /\ [][Next]_vars

\* The event loop runs every task that is ready, and every GET and sleep
\* ends (ClientTimeout bounds a GET), so some enabled step is always taken.
FairSpec == Spec /\ WF_vars(Next)

-----------------------------------------------------------------------------
(* main with --analyze-only, for every choice of --operator: the loop over  *)
(* operators_config awaits analyze_site_structure(key) for each selected    *)
(* key, one after the other, and does nothing with what it returns.         *)

Selected(t) == args.operator = AllOperators \/ args.operator = t

AnalyzeOnlyInit ==
    /\ ParserInit
    /\ \E op \in {AllOperators} \cup Targets :
          args = [analyze_only |-> TRUE, operator |-> op]
    /\ probe = NoProbe
    /\ bench = NoBench
    /\ consent = NoConsent
    /\ scrape = NoScrape
    /\ amount = NoAmount
    /\ pages = NoPages
    /\ crawl = NoCrawl

\* analyze_site_structure(t) goes on from frame fr of its fetch call: a falsy
\* body ends it with the failed SiteAnalysis, another body is analyzed.
AnalysisMoves(t, fr) ==
    CASE fr.status = "returned" ->
            /\ body' = [body EXCEPT ![t][1] = fr.result]
            /\ frame' = [frame EXCEPT ![t] = NoFrame]
            /\ pc' = [pc EXCEPT ![t] = IF Truthy(fr.result) THEN "Analyzing"
                                                             ELSE "Returned"]
            /\ UNCHANGED runPc
      [] fr.status = "raised" ->
            /\ pc' = [pc EXCEPT ![t] = "Raised"]
            /\ runPc' = "raised"
            /\ frame' = [frame EXCEPT ![t] = NoFrame]
            /\ UNCHANGED body
      [] OTHER ->
            /\ frame' = [frame EXCEPT ![t] = fr]
            /\ UNCHANGED <<runPc, pc, body>>

\* The loop reaches selected key t: analyze_site_structure(t) is called.
LoopBegin(t) ==
    /\ runPc = "init"
    /\ Selected(t)
    /\ pc[t] = "Pending"
    /\ \A u \in 1 .. t - 1 : Selected(u) => pc[u] = "Returned"
    /\ call' = [call EXCEPT ![t] = 1]
    /\ pc' = [pc EXCEPT ![t] = "Fetching"]
    /\ frame' = [frame EXCEPT ![t] = EnterFetch(DefaultMaxRetries)]
    /\ UNCHANGED <<runPc, body, site_analysis, results, plans, finished, auxVars>>

LoopGetOk(t, b) ==
    /\ runPc = "init"
    /\ pc[t] = "Fetching"
    /\ frame[t].status = "get"
    /\ AnalysisMoves(t, AfterOk(frame[t], b))
    /\ UNCHANGED <<call, site_analysis, results, plans, finished, auxVars>>

LoopGetFail(t, kind) ==
    /\ runPc = "init"
    /\ pc[t] = "Fetching"
    /\ frame[t].status = "get"
    /\ AnalysisMoves(t, AfterFailure(frame[t], kind, DefaultMaxRetries))
    /\ UNCHANGED <<call, site_analysis, results, plans, finished, auxVars>>

LoopSleep(t) ==
    /\ runPc = "init"
    /\ pc[t] = "Fetching"
    /\ frame[t].status = "sleep"
    /\ AnalysisMoves(t, AfterSleep(frame[t], DefaultMaxRetries))
    /\ UNCHANGED <<call, site_analysis, results, plans, finished, auxVars>>

\* analyze_site_structure lines 309-338: the SiteAnalysis is built and
\* returned to main, which drops it; a parser error leaves main's loop and
\* ends the run (sys.exit(1)).
LoopAnalyze(t) ==
    /\ runPc = "init"
    /\ pc[t] = "Analyzing"
    /\ IF ParserRaises(body[t][1])
       THEN pc' = [pc EXCEPT ![t] = "Raised"] /\ runPc' = "raised"
       ELSE pc' = [pc EXCEPT ![t] = "Returned"] /\ UNCHANGED runPc
    /\ UNCHANGED <<call, frame, body, site_analysis, results, plans, finished, auxVars>>

\* The loop is over: print_analysis_summary, and main returns.
LoopEnd ==
    /\ runPc = "init"
    /\ \A t \in Targets : Selected(t) => pc[t] = "Returned"
    /\ runPc' = "done"
    /\ UNCHANGED <<pc, call, frame, body, site_analysis, results, plans, finished,
                   auxVars>>

AnalyzeOnlyNext ==
    \/ \E t \in Targets : LoopBegin(t)
    \/ \E t \in Targets : \E b \in PageIds : LoopGetOk(t, b)
    \/ \E t \in Targets : \E kind \in FailureKinds : LoopGetFail(t, kind)
    \/ \E t \in Targets : LoopSleep(t)
    \/ \E t \in Targets : LoopAnalyze(t)
    \/ LoopEnd

AnalyzeOnlySpec == AnalyzeOnlyInit /\ [][AnalyzeOnlyNext]_vars

-----------------------------------------------------------------------------
(* One call fetch(url, max_retries) on its own, for every max_retries up to *)
(* MaxRetriesBound and every sequence of attempt outcomes.                  *)

MaxRetriesBound == 3

ProbeInit ==
    /\ RunInit
    /\ \E m \in 0 .. MaxRetriesBound :
          probe = Probe(m, EnterFetch(m), << >>, << >>)
    /\ bench = NoBench
    /\ consent = NoConsent
    /\ scrape = NoScrape
    /\ amount = NoAmount
    /\ pages = NoPages
    /\ crawl = NoCrawl

ProbeGetOk(b) ==
    /\ probe.frame.status = "get"
    /\ probe' = [probe EXCEPT !.frame = AfterOk(probe.frame, b),
                              !.outcomes = Append(@, "ok")]
    /\ UNCHANGED <<runVars, bench, consent, scrape, amount, pages, crawl>>

ProbeGetFail(kind) ==
    /\ probe.frame.status = "get"
    /\ probe' = [probe EXCEPT !.frame = AfterFailure(probe.frame, kind, probe.max_retries),
                              !.outcomes = Append(@, kind)]
    /\ UNCHANGED <<runVars, bench, consent, scrape, amount, pages, crawl>>

ProbeSleep ==
    /\ probe.frame.status = "sleep"
    /\ probe' = [probe EXCEPT !.frame = AfterSleep(probe.frame, probe.max_retries),
                              !.slept = Append(@, SleepSeconds(probe.frame.attempt))]
    /\ UNCHANGED <<runVars, bench, consent, scrape, amount, pages, crawl>>

ProbeNext ==
    \/ \E b \in PageIds : ProbeGetOk(b)
    \/ \E kind \in FailureKinds : ProbeGetFail(kind)
    \/ ProbeSleep

FetchSpec == ProbeInit /\ [][ProbeNext]_vars

-----------------------------------------------------------------------------
(* The Structure Analyzer and the Field Extractor on their own, for every   *)
(* document of up to MaxElems elements drawn from MarkupElems and every     *)
(* target's configuration.                                                  *)

MaxElems == 4

\* The elements the documents are made of:
\*   1  class "plan", every score keyword, name in the first alternative
\*   2  class "plan-card", the same keywords; the first name alternative
\*      matches an element with empty text, the second one has the name
\*   3  classes "product-card plan-card", one keyword, a price and no name
\*   4  classes "product-card plan-item", no keyword, nothing for any role
\*   5  class "plan", one keyword, name in the third alternative only
MarkupElems ==
    { Elem({"plan"}, ConfidenceKeywords,
           <<"Telia Frihet", NoElem, NoElem>>, <<"299 kr">>, <<"50 GB">>),
      Elem({"plan-card"}, ConfidenceKeywords,
           <<"", "Telia Smart", NoElem>>, <<"199 kr">>, <<NoElem>>),
      Elem({"product-card", "plan-card"}, {"kr"},
           <<NoElem, NoElem, NoElem>>, <<"kr 349">>, <<NoElem>>),
      Elem({"product-card", "plan-item"}, {},
           <<NoElem, NoElem, NoElem>>, <<NoElem>>, <<NoElem>>),
      Elem({"plan"}, {"kr"},
           <<NoElem, NoElem, "Ice Mini">>, <<NoElem>>, <<"1 GB">>) }

Soups == UNION {[1 .. n -> MarkupElems] : n \in 0 .. MaxElems}

BenchInit ==
    /\ RunInit
    /\ probe = NoProbe
    /\ \E t \in Targets : \E soup \in Soups :
          bench = Bench(t, soup, "parsed", NoAnalysis, << >>, << >>, << >>, << >>)
    /\ consent = NoConsent
    /\ scrape = NoScrape
    /\ amount = NoAmount
    /\ pages = NoPages
    /\ crawl = NoCrawl

\* analyze_site_structure lines 309-335 on the document.
BenchAnalyze ==
    /\ bench.stage = "parsed"
    /\ bench' = [bench EXCEPT !.stage = "analyzed",
                              !.analysis = AnalysisOf(bench.t, bench.soup),
                              !.fallback = FallbackAfter(AnalyzePlanContainers(bench.soup),
                                                         bench.fallback)]
    /\ UNCHANGED <<runVars, probe, consent, scrape, amount, pages, crawl>>

\* SiteStructureAnalyzer.analyze_page lines 361-384 on the document.
BenchAnalyzePage ==
    /\ bench.stage = "parsed"
    /\ bench' = [bench EXCEPT !.stage = "reported",
                              !.potential = PotentialPlanContainers(bench.soup, 1)]
    /\ UNCHANGED <<runVars, probe, consent, scrape, amount, pages, crawl>>

\* _parse_plans_from_html on the document with the analysis made of it.
BenchExtract ==
    /\ bench.stage = "analyzed"
    /\ LET idx == PlanElements(bench.soup, bench.analysis.optimal_selectors.plan_cards)
       IN bench' = [bench EXCEPT
                      !.stage = "extracted",
                      !.plan_elements = idx,
                      !.texts = [k \in 1 .. Len(idx) |-> TextsOf(bench.soup[idx[k]])],
                      !.plans = PlansOf(bench.soup, idx, bench.analysis.name)]
    /\ UNCHANGED <<runVars, probe, consent, scrape, amount, pages, crawl>>

BenchNext == BenchAnalyze \/ BenchAnalyzePage \/ BenchExtract

MarkupSpec == BenchInit /\ [][BenchNext]_vars

-----------------------------------------------------------------------------
(* SiteStructureAnalyzer.detect_cookie_banner on its own, for every page of *)
(* up to MaxNodes elements.  An element is a paragraph ("text"), an element *)
(* with role="dialog" (matched by banner_containers) or a <button>; its text*)
(* is one of a few.  page_text, the lowercased markup, has the text of      *)
(* every element; the tags and attributes of these elements hold no keyword.*)

MaxNodes == 2

NodeKinds == {"text", "dialog", "button"}

NodeTexts == {"Velkommen", "GDPR", "Samtykke", "Cookies", "OK"}

Nodes == [kind : NodeKinds, text : NodeTexts]

Docs == UNION {[1 .. n -> Nodes] : n \in 0 .. MaxNodes}

\* cookie_keywords, flattened in the order the loops visit them.
KeywordEntries ==
    << <<"informasjonskapsler", "norwegian">>, <<"samtykke", "norwegian">>,
       <<"personvern", "norwegian">>, <<"cookies", "norwegian">>,
       <<"godta", "norwegian">>,
       <<"cookies", "english">>, <<"consent", "english">>,
       <<"privacy", "english">>, <<"accept", "english">>, <<"gdpr", "english">>,
       <<"tracking", "english">>,
       <<"cookie", "common">>, <<"gdpr", "common">>,
       <<"privacy policy", "common">>, <<"data protection", "common">> >>

\* keyword in text.lower(), for the texts of NodeTexts.
LowerContains(text, keyword) ==
    CASE text = "GDPR" -> keyword = "gdpr"
      [] text = "Samtykke" -> keyword = "samtykke"
      [] text = "Cookies" -> keyword \in {"cookies", "cookie", "ok"}
      [] text = "OK" -> keyword = "ok"
      [] OTHER -> FALSE

\* keyword.lower() in page_text
InPageText(doc, keyword) ==
    \E n \in 1 .. Len(doc) : LowerContains(doc[n].text, keyword)

\* found_keywords: one entry per keyword of each language list that occurs.
FoundKeywords(doc) ==
    SelectSeq(KeywordEntries, LAMBDA e : InPageText(doc, e[1]))

\* banner_elements: the banner containers whose text has a keyword.
BannerElements(doc) ==
    SelectSeq(doc, LAMBDA n :
        /\ n.kind = "dialog"
        /\ \E k \in 1 .. Len(KeywordEntries) : LowerContains(n.text, KeywordEntries[k][1]))

\* accept_buttons: the elements the accept selectors match (of these pages,
\* button:-soup-contains("OK"), which is case-sensitive) whose text has an
\* affirmative word.
AcceptButtons(doc) ==
    SelectSeq(doc, LAMBDA n :
        /\ n.kind = "button"
        /\ n.text = "OK"
        /\ \E w \in {"godta", "accept", "ok", "aksepter"} : LowerContains(n.text, w))

ConsentInit ==
    /\ RunInit
    /\ probe = NoProbe
    /\ bench = NoBench
    /\ scrape = NoScrape
    /\ amount = NoAmount
    /\ pages = NoPages
    /\ crawl = NoCrawl
    /\ \E doc \in Docs : consent = [NoConsent EXCEPT !.stage = "called", !.doc = doc]

\* detect_cookie_banner(soup, page_text)
DetectCookieBanner ==
    /\ consent.stage = "called"
    /\ LET found == FoundKeywords(consent.doc)
           banners == BannerElements(consent.doc)
           buttons == AcceptButtons(consent.doc)
       IN consent' = [consent EXCEPT
                        !.stage = "returned",
                        !.text_indicators = found,
                        !.banner_elements = banners,
                        !.accept_buttons = buttons,
                        !.detected = \/ Len(found) >= 2
                                     \/ Len(banners) > 0
                                     \/ Len(buttons) > 0]
    /\ UNCHANGED <<runVars, probe, bench, scrape, amount, pages, crawl>>

ConsentSpec == ConsentInit /\ [][DetectCookieBanner]_vars

-----------------------------------------------------------------------------
(* scraper.py: the record loop of fetch_and_process_page with the           *)
(* Trustpilot lookup, for every list of up to MaxRecords extracted records. *)

MaxRecords == 2

\* The records the LLM extraction returns (ServiceProvider schema); a field
\* that is null or missing is None.
ExtractedRecords ==
    [name : {"", "Telia", "Ice"}, monthly_price : {"299"},
     trustpilot_score : {None, "4.2"}, trustpilot_reviews : {None},
     trustpilot_url : {None}, last_updated : {None, "2024-01-01"}]

ModelTypes == {"mobile_service_provider", "business"}

\* datetime.now().strftime("%Y-%m-%d")
Today == "today"

\* How the arun of fetch_trustpilot_reviews can end: it raises, its result
\* has success false, its result has success true.
LookupOutcomes == {"arun_raises", "not_success", "success"}

\* What a lookup returns, or that it raised.
TrustpilotData(raised, score, reviews, url) ==
    [raised |-> raised, score |-> score, reviews |-> reviews, url |-> url]

NullData == TrustpilotData(FALSE, None, None, None)

\* Mutant of LookupGuarded: fetch_trustpilot_reviews without its try/except.
LookupUnguarded == FALSE

\* try: ... except Exception around the body of fetch_trustpilot_reviews.
LookupGuarded == TRUE

\* Whether the body of fetch_trustpilot_reviews raises: arun raised, or, on
\* success, the call extract_trustpilot_data(result.cleaned_html) raised
\* TypeError, one argument being given for the two parameters
\* (provider_name, context).
LookupRaises(outcome) == outcome \in {"arun_raises", "success"}

\* fetch_trustpilot_reviews(provider_name, crawler)
FetchTrustpilotReviews(provider_name, outcome) ==
    IF provider_name = "" THEN NullData
    ELSE IF LookupRaises(outcome) /\ ~LookupGuarded
         THEN TrustpilotData(TRUE, None, None, None)
         ELSE NullData

\* How the page of a direct extract_trustpilot_data call can be: new_page
\* or goto raises, the page has no business card, the card's rating text is
\* no number, the card has rating "4,5", "1 234 reviews" and a review link.
TrustpilotPages == {"new_page_error", "goto_error", "no_card", "bad_rating", "card"}

\* extract_trustpilot_data(provider_name, context): every exception of the
\* body is caught and gives the all-None dict, as does a missing card; the
\* page.close() of the finally clause is taken not to raise.
ExtractTrustpilotData(provider_name, page) ==
    IF provider_name = "" THEN NullData
    ELSE IF page = "card"
         THEN TrustpilotData(FALSE, "4.5", "1234", "https://no.trustpilot.com/review/x")
         ELSE NullData

\* is_duplicated(name, seen_names)
IsDuplicated(name, seen_names) == name \in seen_names

\* record["last_updated"] = ...; seen_names.add(name); all_records.append(record)
Keep(sc, rec) ==
    [sc EXCEPT !.all_records = Append(@, [rec EXCEPT !.last_updated = Today]),
               !.seen_names = @ \cup {rec.name},
               !.origin = Append(@, sc.i),
               !.i = @ + 1]

\* record.update({...}) with what the lookup returned.
Update(rec, data) ==
    [rec EXCEPT !.trustpilot_score = data.score,
                !.trustpilot_reviews = data.reviews,
                !.trustpilot_url = data.url]

\* The loop from record sc.i on, up to the next await (the lookup of a
\* record that is kept) or to the return.
RECURSIVE Advance(_)
Advance(sc) ==
    IF sc.i > Len(sc.extracted) THEN [sc EXCEPT !.stage = "returned"]
    ELSE LET rec == sc.extracted[sc.i]
         IN IF rec.name = "" \/ IsDuplicated(rec.name, sc.seen_names)
            THEN Advance([sc EXCEPT !.i = @ + 1])
            ELSE IF sc.model_type = "mobile_service_provider"
                 THEN [sc EXCEPT !.stage = "lookup"]
                 ELSE Advance(Keep(sc, rec))

ScrapeInit ==
    /\ RunInit
    /\ probe = NoProbe
    /\ bench = NoBench
    /\ consent = NoConsent
    /\ amount = NoAmount
    /\ pages = NoPages
    /\ crawl = NoCrawl
    /\ \E n \in 1 .. MaxRecords : \E data \in [1 .. n -> ExtractedRecords] :
       \E mt \in ModelTypes :
          scrape = [NoScrape EXCEPT !.stage = "called", !.model_type = mt,
                                    !.extracted = data]

\* The loop starts.
EnterLoop ==
    /\ scrape.stage = "called"
    /\ scrape' = Advance([scrape EXCEPT !.stage = "loop"])
    /\ UNCHANGED <<runVars, probe, bench, consent, amount, pages, crawl>>

\* The lookup of record i ends; the loop goes on.  An exception that left
\* the lookup is caught by the loop's own except and the record is dropped.
LookupEnds(outcome) ==
    /\ scrape.stage = "lookup"
    /\ LET rec == scrape.extracted[scrape.i]
           data == FetchTrustpilotReviews(rec.name, outcome)
           logged == [scrape EXCEPT !.stage = "loop",
                                    !.lookups = Append(@, [i |-> scrape.i,
                                                           outcome |-> outcome,
                                                           data |-> data])]
       IN scrape' = IF data.raised
                    THEN Advance([logged EXCEPT !.i = @ + 1])
                    ELSE Advance(Keep(logged, Update(rec, data)))
    /\ UNCHANGED <<runVars, probe, bench, consent, amount, pages, crawl>>

\* A call extract_trustpilot_data(name, context) made on its own.
DirectExtract(name, page) ==
    /\ scrape.stage = "called"
    /\ scrape' = [scrape EXCEPT
                    !.stage = "direct",
                    !.direct = <<[name |-> name, page |-> page,
                                  data |-> ExtractTrustpilotData(name, page)]>>]
    /\ UNCHANGED <<runVars, probe, bench, consent, amount, pages, crawl>>

ScrapeNext ==
    \/ EnterLoop
    \/ \E outcome \in LookupOutcomes : LookupEnds(outcome)
    \/ \E page \in TrustpilotPages : DirectExtract(scrape.extracted[1].name, page)

ScrapeSpec == ScrapeInit /\ [][ScrapeNext]_vars

-----------------------------------------------------------------------------
(* Invocations of fetch_and_process_page that share one seen_names set and   *)
(* run interleaved on one event loop: an invocation gives way at its awaits  *)
(* (the page fetch, the lookup of a record) and nowhere else.  A record is   *)
(* its name.                                                                 *)

NumInvocations == 2

MaxPageRecords == 2

Invocations == 1 .. NumInvocations

PageNames == {"", "Telia", "Ice"}

Invocation(stage, extracted) ==
    [stage |-> stage, extracted |-> extracted, i |-> 1, all_records |-> << >>,
     seen_at_call |-> {}]

\* seen_names.add(name); all_records.append(record)
PageKeep(pg, p) ==
    LET name == pg.inv[p].extracted[pg.inv[p].i]
    IN  [pg EXCEPT !.seen_names = @ \cup {name},
                   !.inv[p].all_records = Append(@, name),
                   !.inv[p].i = @ + 1]

\* The loop of invocation p from its record i on, up to its next await (the
\* lookup of a record that passed the duplicate test) or to its return.
RECURSIVE PageAdvance(_, _)
PageAdvance(pg, p) ==
    IF pg.inv[p].i > Len(pg.inv[p].extracted)
    THEN [pg EXCEPT !.inv[p].stage = "returned"]
    ELSE LET name == pg.inv[p].extracted[pg.inv[p].i]
         IN IF name = "" \/ IsDuplicated(name, pg.seen_names)
            THEN PageAdvance([pg EXCEPT !.inv[p].i = @ + 1], p)
            ELSE IF pg.model_type = "mobile_service_provider"
                 THEN [pg EXCEPT !.inv[p].stage = "lookup"]
                 ELSE PageAdvance(PageKeep(pg, p), p)

PagesInit ==
    /\ RunInit
    /\ probe = NoProbe
    /\ bench = NoBench
    /\ consent = NoConsent
    /\ scrape = NoScrape
    /\ amount = NoAmount
    /\ crawl = NoCrawl
    /\ \E mt \in ModelTypes : \E seen \in {{}, {"Ice"}} :
       \E data \in [Invocations ->
                      UNION {[1 .. n -> PageNames] : n \in 0 .. MaxPageRecords}] :
          pages = [stage |-> "run", model_type |-> mt, seen_names |-> seen,
                   inv |-> [p \in Invocations |-> Invocation("created", data[p])]]

\* Invocation p is started and awaits its page.
PageCall(p) ==
    /\ pages.stage = "run"
    /\ pages.inv[p].stage = "created"
    /\ pages' = [pages EXCEPT !.inv[p].stage = "fetching",
                              !.inv[p].seen_at_call = pages.seen_names]
    /\ UNCHANGED <<runVars, probe, bench, consent, scrape, amount, crawl>>

\* The page of invocation p has arrived: no data, or the loop starts.
PageEnterLoop(p) ==
    /\ pages.stage = "run"
    /\ pages.inv[p].stage = "fetching"
    /\ pages' = PageAdvance(pages, p)
    /\ UNCHANGED <<runVars, probe, bench, consent, scrape, amount, crawl>>

\* The lookup invocation p awaited ends; its loop goes on.
PageLookupEnds(p, outcome) ==
    /\ pages.stage = "run"
    /\ pages.inv[p].stage = "lookup"
    /\ LET name == pages.inv[p].extracted[pages.inv[p].i]
           resumed == [pages EXCEPT !.inv[p].stage = "loop"]
       IN pages' = IF FetchTrustpilotReviews(name, outcome).raised
                   THEN PageAdvance([resumed EXCEPT !.inv[p].i = @ + 1], p)
                   ELSE PageAdvance(PageKeep(resumed, p), p)
    /\ UNCHANGED <<runVars, probe, bench, consent, scrape, amount, crawl>>

PagesNext ==
    \/ \E p \in Invocations : PageCall(p)
    \/ \E p \in Invocations : PageEnterLoop(p)
    \/ \E p \in Invocations : \E outcome \in LookupOutcomes : PageLookupEnds(p, outcome)

PagesSpec == PagesInit /\ [][PagesNext]_vars

-----------------------------------------------------------------------------
(* _extract_data_amount on its own. A text is a sequence of tokens: numbers  *)
(* (with a comma or a dot as decimal separator), a blank, unit words,        *)
(* unlimited keywords in several letter cases, and another word. What the    *)
(* function returns is a text too.                                           *)

MaxTokens == 4

NumberTokens == {"5", "5,5", "1.5"}

AmountTokens ==
    NumberTokens \cup {" ", "GB", "MB", "Unlimited", "UBEGRENSET", "fri data", "data"}

\* Two numbers next to each other would read as one number.
Texts ==
    {text \in UNION {[1 .. n -> AmountTokens] : n \in 0 .. MaxTokens} :
        \A i \in 1 .. Len(text) - 1 :
            ~(text[i] \in NumberTokens /\ text[i + 1] \in NumberTokens)}

AmountParsers == {"unified", "main", "several"}

\* str.lower() of a token kept as written.
SameCase(tok) == tok
\* str.lower() of a token.
LowerOf(tok) ==
    CASE tok = "Unlimited" -> "unlimited"
      [] tok = "UBEGRENSET" -> "ubegrenset"
      [] tok = "GB" -> "gb"
      [] tok = "TB" -> "tb"
      [] tok = "MB" -> "mb"
      [] OTHER -> tok

UnlimitedKeywords == {"ubegrenset", "unlimited", "fri data", "uten grense"}

\* any(keyword in text_lower for keyword in unlimited_keywords)
AnyUnlimitedKeyword(text) ==
    \E i \in 1 .. Len(text) : LowerOf(text[i]) \in UnlimitedKeywords

\* The patterns with a number group, in list order: the unit, the decimal
\* separators the number group admits, and whether \b must follow the unit.
\* (The keyword pattern of main.py is reached only by texts that hold no
\* keyword, where a keyword with a blank in it is the only thing it could
\* still match; no such token is in AmountTokens.)
DataPatterns(parser) ==
    IF parser = "unified"
    THEN << [unit |-> "GB", decimal |-> {",", "."}, boundary |-> TRUE],
            [unit |-> "TB", decimal |-> {",", "."}, boundary |-> TRUE],
            [unit |-> "MB", decimal |-> {",", "."}, boundary |-> TRUE],
            [unit |-> "giga", decimal |-> {}, boundary |-> TRUE] >>
    ELSE << [unit |-> "GB", decimal |-> {","}, boundary |-> FALSE],
            [unit |-> "TB", decimal |-> {","}, boundary |-> FALSE],
            [unit |-> "MB", decimal |-> {","}, boundary |-> FALSE],
            [unit |-> "giga", decimal |-> {}, boundary |-> FALSE] >>

DecimalSeparator(tok) ==
    CASE tok = "5,5" -> ","
      [] tok = "1.5" -> "."
      [] OTHER -> ""

\* The digits after the decimal separator of a number.
DigitsAfterSeparator(tok) == IF tok \in {"5,5", "1.5"} THEN "5" ELSE tok

\* What the number group matches of number tok in the leftmost match that
\* ends at the end of tok: the whole number if the group admits its
\* separator, else the digits after the separator.
NumberGroup(tok, pat) ==
    IF DecimalSeparator(tok) = "" \/ DecimalSeparator(tok) \in pat.decimal
    THEN tok
    ELSE DigitsAfterSeparator(tok)

\* str.replace(',', '.') of a number.
ReplaceComma(tok) == IF tok = "5,5" THEN "5.5" ELSE tok

\* \s*: the first position from j on that holds no blank.
RECURSIVE SkipBlanks(_, _)
SkipBlanks(text, j) ==
    IF j <= Len(text) /\ text[j] = " " THEN SkipBlanks(text, j + 1) ELSE j

\* The pattern matches with its number group ending in text[i].
MatchesAt(text, i, pat) ==
    LET j == SkipBlanks(text, i + 1)
    IN  /\ text[i] \in NumberTokens
        /\ j <= Len(text)
        /\ LowerOf(text[j]) = LowerOf(pat.unit)
        /\ pat.boundary => (j = Len(text) \/ text[j + 1] = " ")

\* re.search(pattern, text, re.IGNORECASE): the leftmost match, 0 if none.
RECURSIVE SearchFrom(_, _, _)
SearchFrom(text, i, pat) ==
    IF i > Len(text) THEN 0
    ELSE IF MatchesAt(text, i, pat) THEN i
    ELSE SearchFrom(text, i + 1, pat)

\* match.group(0): the matched number, the blanks and the unit as written.
GroupZero(text, i, pat) ==
    <<NumberGroup(text[i], pat)>> \o SubSeq(text, i + 1, SkipBlanks(text, i + 1))

\* What a match of pat at i makes the function return.
AmountOfMatch(parser, text, i, pat) ==
    IF parser = "unified"
    THEN << ReplaceComma(NumberGroup(text[i], pat)), " ",
            IF pat.unit = "giga" THEN "GB" ELSE text[SkipBlanks(text, i + 1)] >>
    ELSE IF pat.unit = "giga"
         THEN <<NumberGroup(text[i], pat), " ", "GB">>
         ELSE GroupZero(text, i, pat)

\* _clean_text: re.sub(r'\s+', ' ', text.strip())
RECURSIVE CleanTokens(_)
CleanTokens(text) ==
    IF text = << >> THEN << >>
    ELSE IF Head(text) = " " THEN CleanTokens(Tail(text))
    ELSE IF text[Len(text)] = " " THEN CleanTokens(SubSeq(text, 1, Len(text) - 1))
    ELSE IF Len(text) >= 3 /\ text[2] = " " /\ text[3] = " "
         THEN CleanTokens(<<Head(text)>> \o SubSeq(text, 3, Len(text)))
    ELSE <<Head(text)>> \o
         (IF Len(text) >= 2 /\ text[2] = " "
          THEN <<" ">> \o CleanTokens(SubSeq(text, 3, Len(text)))
          ELSE CleanTokens(Tail(text)))

\* for pattern in data_patterns: from pattern k on.
RECURSIVE FirstPatternFrom(_, _, _)
FirstPatternFrom(parser, text, k) ==
    IF k > Len(DataPatterns(parser)) THEN CleanTokens(text)
    ELSE LET pat == DataPatterns(parser)[k]
             i == SearchFrom(text, 1, pat)
         IN  IF i # 0 THEN AmountOfMatch(parser, text, i, pat)
             ELSE FirstPatternFrom(parser, text, k + 1)

ExtractDataAmountOf(parser, text) ==
    IF text = << >> THEN << >>
    ELSE IF AnyUnlimitedKeyword(text) THEN <<"Unlimited">>
    ELSE FirstPatternFrom(parser, text, 1)

AmountInit ==
    /\ RunInit
    /\ probe = NoProbe
    /\ bench = NoBench
    /\ consent = NoConsent
    /\ scrape = NoScrape
    /\ pages = NoPages
    /\ crawl = NoCrawl
    /\ \E text \in Texts :
          amount = [stage |-> "called", text |-> text, parser |-> "",
                    returned |-> << >>]

ExtractAmount(parser) ==
    /\ amount.stage = "called"
    /\ amount' = [amount EXCEPT !.stage = "returned",
                                !.parser = parser,
                                !.returned = ExtractDataAmountOf(parser, amount.text)]
    /\ UNCHANGED <<runVars, probe, bench, consent, scrape, pages, crawl>>

AmountNext == \E parser \in AmountParsers : ExtractAmount(parser)

AmountSpec == AmountInit /\ [][AmountNext]_vars

-----------------------------------------------------------------------------
(* WebsiteDiagnostic.crawl_website on its own, for every max_pages up to     *)
(* MaxPagesBound and every link graph over Urls: what a page links to is     *)
(* chosen when the page is checked, which happens once per page at most.     *)
(* check_url_accessibility catches the request's exceptions; analyze_seo,    *)
(* extract_links and check_security are taken not to raise.                  *)

MaxPagesBound == 3

BaseUrl == "/"

Urls == {BaseUrl, "/a", "/b", "/c"}

\* The orders in which a for loop can go through the set extract_links
\* returns.
OrdersOf(links) ==
    {q \in [1 .. Cardinality(links) -> links] :
        \A i, j \in 1 .. Cardinality(links) : q[i] = q[j] => i = j}

\* Mutant of AppendNew: every extracted link is queued.
AppendAll(queue, visited, new_links) == queue \o new_links

\* for link in new_links: if link not in self.visited_urls and link not in
\* urls_to_visit: urls_to_visit.append(link)
RECURSIVE AppendNew(_, _, _)
AppendNew(queue, visited, new_links) ==
    IF new_links = << >> THEN queue
    ELSE AppendNew(IF Head(new_links) \notin visited
                      /\ \A k \in 1 .. Len(queue) : queue[k] # Head(new_links)
                   THEN Append(queue, Head(new_links))
                   ELSE queue,
                   visited, Tail(new_links))

CrawlInit ==
    /\ RunInit
    /\ probe = NoProbe
    /\ bench = NoBench
    /\ consent = NoConsent
    /\ scrape = NoScrape
    /\ amount = NoAmount
    /\ pages = NoPages
    /\ \E m \in 0 .. MaxPagesBound :
          crawl = [NoCrawl EXCEPT !.stage = "loop", !.max_pages = m,
                                  !.urls_to_visit = <<BaseUrl>>]

\* while urls_to_visit and len(self.visited_urls) < self.max_pages
LoopGoesOn ==
    /\ crawl.stage = "loop"
    /\ crawl.urls_to_visit # << >>
    /\ Cardinality(crawl.visited_urls) < crawl.max_pages

\* current_url = urls_to_visit.pop(0), and, unless it is in visited_urls
\* already, it is added to visited_urls and checked.
Popped ==
    LET current_url == Head(crawl.urls_to_visit)
    IN  IF current_url \in crawl.visited_urls
        THEN [crawl EXCEPT !.urls_to_visit = Tail(@)]
        ELSE [crawl EXCEPT !.urls_to_visit = Tail(@),
                           !.visited_urls = @ \cup {current_url},
                           !.checked = Append(@, current_url)]

IsChecked == Head(crawl.urls_to_visit) \notin crawl.visited_urls

\* One iteration whose check finds the URL not accessible.
IterateBroken ==
    /\ LoopGoesOn
    /\ crawl' = IF IsChecked
                THEN [Popped EXCEPT !.broken_links = Append(@, Head(crawl.urls_to_visit))]
                ELSE Popped
    /\ UNCHANGED <<runVars, probe, bench, consent, scrape, amount, pages>>

\* One iteration whose check finds the URL accessible with no content (a
\* status other than 200).
IterateNoContent ==
    /\ LoopGoesOn
    /\ crawl' = Popped
    /\ UNCHANGED <<runVars, probe, bench, consent, scrape, amount, pages>>

\* One iteration whose check gets a page: its internal links, gone through
\* in the order new_links, are queued.
IterateContent(new_links) ==
    /\ LoopGoesOn
    /\ crawl' = IF IsChecked
                THEN [Popped EXCEPT !.urls_to_visit =
                         AppendNew(Popped.urls_to_visit, Popped.visited_urls, new_links)]
                ELSE Popped
    /\ UNCHANGED <<runVars, probe, bench, consent, scrape, amount, pages>>

\* The loop condition is false: crawl_website returns.
CrawlReturns ==
    /\ crawl.stage = "loop"
    /\ ~LoopGoesOn
    /\ crawl' = [crawl EXCEPT !.stage = "done"]
    /\ UNCHANGED <<runVars, probe, bench, consent, scrape, amount, pages>>

CrawlNext ==
    \/ IterateBroken
    \/ IterateNoContent
    \/ \E links \in SUBSET Urls : \E new_links \in OrdersOf(links) :
          IterateContent(new_links)
    \/ CrawlReturns

CrawlSpec == CrawlInit /\ [][CrawlNext]_vars

\* crawl_website runs on: the loop is a plain sequential loop.
CrawlFairSpec == CrawlSpec /\ WF_vars(CrawlNext)

-----------------------------------------------------------------------------
(* Vocabulary of the properties.                                            *)

\* A fetch call of task t exhausted its retries and returned None.
FetchFailed(t) == body[t][1] = None \/ body[t][2] = None

\* Task t ended with an exception.
TaskRaised(t) == results[t].kind = "exception"

TaskFailed(t) == FetchFailed(t) \/ TaskRaised(t)

\* The items of a list that carry target t's operator name.
ItemsOf(t, ps) == SelectSeq(ps, LAMBDA p : p.operator = Config(t).name)

\* The names of the items task t returned.
NamesOf(t) == {results[t].plans[i].name : i \in 1 .. Len(results[t].plans)}

RECURSIVE SumSeq(_)
SumSeq(q) == IF q = << >> THEN 0 ELSE Head(q) + SumSeq(Tail(q))

Range(q) == {q[i] : i \in 1 .. Len(q)}

Terminal(t) == pc[t] \in {"Returned", "Raised"}

\* The stages of the per-target state machine, in their order.
StageRank(stage) ==
    CASE stage = "Pending" -> 0
      [] stage = "Fetching" -> 1
      [] stage = "Analyzing" -> 2
      [] stage = "Extracting" -> 3
      [] OTHER -> 4

-----------------------------------------------------------------------------
(* Properties.                                                              *)

\* C1: after parse_all_operators the merged list holds at most one item per
\* (real) item name across all targets, and an item whose name several
\* targets produced is the one of the earliest of them in submission order.
C1_OneItemPerName ==
    runPc = "done" =>
      /\ \A i, j \in 1 .. Len(plans) :
            (plans[i].name = plans[j].name /\ plans[i].name # Unspecified) => i = j
      /\ \A i \in 1 .. Len(plans) : \A t \in Targets :
            (plans[i].name \in NamesOf(t) /\ plans[i].name # Unspecified)
               => \E u \in 1 .. t : plans[i].operator = Config(u).name

\* C2: a target whose pipeline failed (a fetch exhausted its retries, or it
\* raised) does not abort the run: the merged list has none of its items and
\* has every item each other target returned.
C2_FailureIsolated ==
    /\ runPc # "raised"
    /\ runPc = "done" =>
         \A t \in Targets :
            IF TaskFailed(t)
            THEN ItemsOf(t, plans) = << >>
            ELSE ItemsOf(t, plans) = results[t].plans

\* C2 witness: the run is done, one target exhausted its retries and a
\* sibling's items are in the merged list.
C2_Witness ==
    /\ runPc = "done"
    /\ \E t, u \in Targets :
          /\ body[t][1] = None
          /\ ~TaskFailed(u)
          /\ ItemsOf(u, plans) # << >>

\* C3: whichever fetch call of a target returned failure, the target has no
\* item in the merged list and its recorded status is the failed one.
C3_FailedFetchRecorded ==
    runPc = "done" =>
      \A t \in Targets : \A c \in {1, 2} :
         body[t][c] = None =>
            /\ ItemsOf(t, plans) = << >>
            /\ site_analysis[t].status = "failed"

\* C4: a call never issues more than max_retries GETs, and a call whose every
\* attempt failed issued exactly max_retries GETs and returned None.
C4_ExactlyMaxRetriesAttempts ==
    /\ Len(probe.outcomes) <= probe.max_retries
    /\ (probe.frame.status = "returned" /\ "ok" \notin Range(probe.outcomes))
         => /\ Len(probe.outcomes) = probe.max_retries
            /\ probe.frame.result = None

\* C4 witness: three failed GETs with max_retries = 3, then None.
C4_Witness ==
    /\ probe.max_retries = 3
    /\ probe.frame.status = "returned"
    /\ probe.frame.result = None
    /\ Len(probe.outcomes) = 3

\* C5: the k-th sleep of a call (k = 0, 1, ...) lasts 2^k seconds; each failed
\* attempt but the last of the range is followed by its sleep before the next
\* GET, and the call returns with no sleep after its final attempt.
C5_BackoffSchedule ==
    LET n == Len(probe.outcomes)
        s == Len(probe.slept)
    IN /\ \A k \in 1 .. s : probe.slept[k] = 2 ^ (k - 1)
       /\ probe.frame.status = "get" => s = n
       /\ probe.frame.status = "sleep" => (s = n - 1 /\ n < probe.max_retries)
       /\ probe.frame.status = "returned" => s = (IF n = 0 THEN 0 ELSE n - 1)

\* C5 witness: a call with max_retries = 3 that slept 1 s and 2 s and
\* returned None.
C5_Witness ==
    /\ probe.frame.status = "returned"
    /\ probe.frame.result = None
    /\ probe.slept = <<1, 2>>

\* A finished call with max_retries = 3 whose three attempts timed out.
AlwaysTimedOut ==
    /\ probe.max_retries = 3
    /\ probe.frame.status = "returned"
    /\ probe.outcomes = <<"timeout", "timeout", "timeout">>

\* C6 as stated: with max_retries = 3 on a URL that always times out the
\* backoff waits of the call add up to 1 + 2 + 4 = 7 seconds.
C6_TotalWaitSeven == AlwaysTimedOut => SumSeq(probe.slept) = 7

\* C6 amended: with max_retries = 3 on a URL that always times out the
\* backoff waits of the call add up to 1 + 2 = 3 seconds.
C6_TotalWaitThree == AlwaysTimedOut => SumSeq(probe.slept) = 3

\* C6 witness: such a call has returned.
C6_Witness == AlwaysTimedOut /\ probe.frame.result = None

\* C7: no failure of an attempt leaves the call as an exception: the call
\* never ends raised, and it ends returning a body or None.
C7_NoExceptionEscapes ==
    /\ probe.frame.status # "raised"
    /\ probe.frame.status = "returned" => probe.frame.result \in PageIds \cup {None}

\* C7 witness: a call returned after a client exception in one attempt and a
\* timeout in another.
C7_Witness ==
    /\ probe.frame.status = "returned"
    /\ {"client_error", "timeout"} \subseteq Range(probe.outcomes)

\* C8: a task's stage never moves back in the order Pending, Fetching,
\* Analyzing, Extracting, and the markup it extracts from is the markup it
\* analyzed.
C8_StagesInOrder ==
    [][\A t \in Targets :
          /\ StageRank(pc'[t]) >= StageRank(pc[t])
          /\ pc'[t] = "Extracting" => body'[t][2] = body'[t][1]]_vars

\* C9: when a task raised, the finished run has a failed status recorded for
\* its key, and the exception did not leave parse_all_operators.
C9_ExceptionRecorded ==
    /\ runPc # "raised"
    /\ runPc = "done" =>
         \A t \in Targets :
            TaskRaised(t) => site_analysis[t].status \notin {"absent", "success"}

\* C10: every task reaches a terminal stage and the run returns; when every
\* target failed the returned list is empty.
C10_RunCompletes ==
    <>( /\ runPc = "done"
        /\ \A t \in Targets : Terminal(t)
        /\ (\A t \in Targets : TaskFailed(t)) => plans = << >> )

\* C10 witness: the run returned although every target failed, one by an
\* exception and one by exhausted retries.
C10_Witness ==
    /\ runPc = "done"
    /\ \A t \in Targets : TaskFailed(t)
    /\ \E t \in Targets : TaskRaised(t)
    /\ \E t \in Targets : FetchFailed(t)
    /\ plans = << >>

\* Where an item stands in submission order: the target whose operator name
\* it carries.
TargetOf(p) == CHOOSE t \in Targets : Config(t).name = p.operator

\* C11 as stated: while the tasks run none of them writes self.site_analysis
\* or self.plans; a step changes one of them only when every task has ended.
C11_SharedWrittenOnlyByMerge ==
    [][(site_analysis' # site_analysis \/ plans' # plans)
          => \A t \in Targets : Terminal(t)]_vars

\* C12: the returned list has the items of an earlier submitted target before
\* those of a later one, and each target's items in the order in which its
\* task found them, in whatever order the tasks ended.
C12_SubmissionThenDiscoveryOrder ==
    runPc = "done" =>
      /\ \A i, j \in 1 .. Len(plans) :
            i < j => TargetOf(plans[i]) <= TargetOf(plans[j])
      /\ \A t \in Targets :
            ~TaskRaised(t) => ItemsOf(t, plans) = results[t].plans

\* C12 witness: the task submitted second ended first, and the returned list
\* has items of both, several of them from one target.
C12_Witness ==
    /\ runPc = "done"
    /\ finished[1] = 2
    /\ Len(ItemsOf(1, plans)) >= 2
    /\ ItemsOf(2, plans) # << >>

\* The elements of a document that selector sel matches.
MatchedBy(soup, sel) == {i \in 1 .. Len(soup) : Matches(sel, soup[i])}

\* C13 as stated: every container candidate an analyzer returns for a
\* document matched at least 2 of its elements, be it a candidate of
\* _analyze_plan_containers or an entry of analyze_page.
C13_CandidatesMatchTwo ==
    /\ \A k \in 1 .. Len(bench.analysis.plan_containers) :
          Cardinality(MatchedBy(bench.soup, bench.analysis.plan_containers[k].selector)) >= 2
    /\ \A k \in 1 .. Len(bench.potential) :
          Cardinality(MatchedBy(bench.soup, bench.potential[k].selector)) >= 2

\* The place of a selector in container_patterns.
PatternIndex(sel) ==
    CHOOSE k \in 1 .. Len(ContainerPatterns) : ContainerPatterns[k] = sel

ConfEqual(a, b) == a.num * b.den = b.num * a.den

RECURSIVE FirstNonEmptyText(_)
FirstNonEmptyText(alts) ==
    IF alts = << >> THEN ""
    ELSE IF Head(alts) # NoElem /\ CleanTextOf(Head(alts)) # ""
         THEN CleanTextOf(Head(alts))
         ELSE FirstNonEmptyText(Tail(alts))

\* C16 as stated: the list of container elements the extractor iterates over
\* has each element once, and no element gives more than one item.
C16_EachElementOnce ==
    bench.stage = "extracted" =>
      /\ \A i, j \in 1 .. Len(bench.plan_elements) :
            bench.plan_elements[i] = bench.plan_elements[j] => i = j
      /\ Len(bench.plans) <= Cardinality(Range(bench.plan_elements))

\* C17 as stated: for each container element and each of the roles name,
\* price and data the extractor takes the text of the first alternative
\* whose match has text that is not empty.
C17_FirstNonEmptyAlternative ==
    bench.stage = "extracted" =>
      \A k \in 1 .. Len(bench.plan_elements) :
         LET e == bench.soup[bench.plan_elements[k]]
         IN /\ bench.texts[k].name = FirstNonEmptyText(e.name)
            /\ bench.texts[k].price = FirstNonEmptyText(e.price)
            /\ bench.texts[k].data = FirstNonEmptyText(e.data)

\* The container elements (places in plan_elements) for which the extractor
\* found a name, a price or a data amount.
WithInfo ==
    SelectSeq([k \in 1 .. Len(bench.plan_elements) |-> k],
              LAMBDA k : \/ bench.texts[k].name # ""
                         \/ ExtractPrice(bench.texts[k].price) # ""
                         \/ ExtractDataAmount(bench.texts[k].data) # "")

DistinctKeywords(doc) ==
    {KeywordEntries[k][1] : k \in {j \in 1 .. Len(KeywordEntries) :
                                       InPageText(doc, KeywordEntries[j][1])}}

\* C15 as stated: detected is true exactly when the page text has at least 2
\* distinct consent keywords, or a banner element was found, or an accept
\* button was found; a page with one distinct keyword and neither banner
\* nor button is not detected.
C15_DetectedIffTwoDistinct ==
    consent.stage = "returned" =>
      consent.detected =
         ( \/ Cardinality(DistinctKeywords(consent.doc)) >= 2
           \/ consent.banner_elements # << >>
           \/ consent.accept_buttons # << >> )

\* The outcomes and pages with which a lookup fails.
FailedOutcomes == {"arun_raises", "not_success"}
FailedPages == {"new_page_error", "goto_error", "no_card", "bad_rating"}

IsNull(data) == data.score = None /\ data.reviews = None /\ data.url = None

\* C19: a lookup that fails, whichever way, returns all-null fields and does
\* not raise, and the record it was made for is kept in all_records.
C19_FailedLookupKeepsRecord ==
    /\ \A k \in 1 .. Len(scrape.lookups) :
          LET l == scrape.lookups[k]
          IN /\ ~l.data.raised
             /\ l.outcome \in FailedOutcomes => IsNull(l.data)
             /\ \E m \in 1 .. Len(scrape.origin) : scrape.origin[m] = l.i
    /\ \A k \in 1 .. Len(scrape.direct) :
          LET d == scrape.direct[k]
          IN /\ ~d.data.raised
             /\ d.page \in FailedPages => IsNull(d.data)

\* C19 witness: the call returned after a lookup whose arun raised and one
\* whose result was unsuccessful, with both records kept.
C19_Witness ==
    /\ scrape.stage = "returned"
    /\ Len(scrape.all_records) = 2
    /\ {scrape.lookups[k].outcome : k \in 1 .. Len(scrape.lookups)} = FailedOutcomes

EnrichmentFields ==
    {"name", "monthly_price", "trustpilot_score", "trustpilot_reviews",
     "trustpilot_url"}

\* C20 as stated: a kept record has, in every field that had a value when
\* the record was extracted, that same value (the timestamp field, set
\* after the lookup, is left out of the comparison).
C20_EnrichmentOnlyAdds ==
    \A m \in 1 .. Len(scrape.all_records) :
       \A f \in EnrichmentFields :
          LET before == scrape.extracted[scrape.origin[m]][f]
          IN before # None => scrape.all_records[m][f] = before

\* C21 as stated: with --analyze-only no selected target is taken past the
\* analysis (no second fetch, no extraction, no item), and when main is
\* done self.site_analysis, which the summary is printed from, has the
\* analysis of every selected target.
C21_AnalyzeOnlyKeepsRecords ==
    /\ plans = << >>
    /\ \A t \in Targets : pc[t] # "Extracting" /\ call[t] # 2
    /\ runPc = "done" =>
         \A t \in Targets : Selected(t) => site_analysis[t].status # "absent"

\* The status the run records for target t: the status field of its entry in
\* self.site_analysis ("absent" while there is no entry).
StatusOf(t) == site_analysis[t].status

\* C22 as stated: a target that has ended has exactly one of the four
\* statuses (success, fetch-failed, no-items, exception; the code writes
\* fetch-failed as 'failed'), and a target whose fetch and analysis
\* succeeded and whose extraction returned no item does not have the
\* success status.
C22_FourStatuses ==
    \A t \in Targets :
        Terminal(t) =>
            /\ StatusOf(t) \in {"success", "failed", "no-items", "exception"}
            /\ TaskRaised(t) => StatusOf(t) = "exception"
            /\ ( /\ results[t].kind = "value"
                 /\ Truthy(body[t][1])
                 /\ results[t].plans = << >> ) => StatusOf(t) # "success"

\* The unlimited keywords as they are written in the texts.
KeywordTokens == {"Unlimited", "UBEGRENSET", "fri data"}

HoldsKeyword(text) == \E i \in 1 .. Len(text) : text[i] \in KeywordTokens

\* The positions of text where a pattern "<N> <unit>" starts.
AmountsIn(text, unit) ==
    {i \in 1 .. Len(text) - 2 :
        text[i] \in NumberTokens /\ text[i + 1] = " " /\ text[i + 2] = unit}

\* C23: every implementation returns "Unlimited" for a text that holds an
\* unlimited keyword in whatever letter case, whether or not the text also
\* holds a numeric amount.
C23_UnlimitedWins ==
    (amount.stage = "returned" /\ HoldsKeyword(amount.text))
        => amount.returned = <<"Unlimited">>

\* An upper-case keyword after "<N> GB" was answered with "Unlimited".
C23_Witness ==
    /\ amount.stage = "returned"
    /\ AmountsIn(amount.text, "GB") # {}
    /\ \E i \in 1 .. Len(amount.text) : amount.text[i] = "UBEGRENSET"
    /\ amount.returned = <<"Unlimited">>

\* C24 as stated: for a text that holds "<N> GB" and no unlimited keyword,
\* every implementation returns "<N> GB" for such an N, with N's decimal
\* comma turned into a dot.
C24_CommaBecomesDot ==
    ( /\ amount.stage = "returned"
      /\ ~HoldsKeyword(amount.text)
      /\ AmountsIn(amount.text, "GB") # {} )
        => \E i \in AmountsIn(amount.text, "GB") :
              amount.returned = <<ReplaceComma(amount.text[i]), " ", "GB">>

\* The number of score keywords in the text of each of the first m elements
\* that selector sel matches in the document.
FoundIn(soup, sel, m) ==
    [j \in 1 .. m |-> Cardinality(soup[Select(soup, sel)[j]].kw \cap ConfidenceKeywords)]

\* C25: the confidence of every candidate analyze_site_structure returns is
\* in [0,1] and is the average, over the first min(3, count) elements its
\* selector matches, of the fraction of the six keywords found in the
\* element's text.
C25_ConfidenceIsAverage ==
    bench.stage = "analyzed" =>
        \A k \in 1 .. Len(bench.analysis.plan_containers) :
            LET c == bench.analysis.plan_containers[k]
                m == Min(c.count, 3)
            IN  /\ c.confidence.den > 0
                /\ 0 <= c.confidence.num
                /\ c.confidence.num <= c.confidence.den
                /\ c.confidence.num * m * Cardinality(ConfidenceKeywords)
                     = c.confidence.den * SumSeq(FoundIn(bench.soup, c.selector, m))

\* A candidate with more than three matches whose confidence is neither 0
\* nor 1 and is not the average over all of its matches.
C25_Witness ==
    /\ bench.stage = "analyzed"
    /\ \E k \in 1 .. Len(bench.analysis.plan_containers) :
          LET c == bench.analysis.plan_containers[k]
          IN  /\ c.count > 3
              /\ 0 < c.confidence.num
              /\ c.confidence.num < c.confidence.den
              /\ c.confidence.num * c.count * Cardinality(ConfidenceKeywords)
                   # c.confidence.den * SumSeq(FoundIn(bench.soup, c.selector, c.count))

\* C26: the selectors the extraction works with are the target's fallback
\* selectors, but for plan_cards, which is the selector of the candidate of
\* highest confidence exactly when that confidence is above 0.5; plan_name,
\* price and data are the configured ones, and the configured
\* fallback_selectors are as they were.
C26_OnlyContainerRoleReplaced ==
    bench.stage \in {"analyzed", "extracted"} =>
        LET used == bench.analysis.optimal_selectors
            configured == Config(bench.t).fallback_selectors
            cs == bench.analysis.plan_containers
        IN  /\ \A k \in 1 .. Len(cs) : ~ConfGreater(cs[k].confidence, cs[1].confidence)
            /\ used.plan_cards =
                 IF cs # << >> /\ 2 * cs[1].confidence.num > cs[1].confidence.den
                 THEN <<cs[1].selector>>
                 ELSE configured.plan_cards
            /\ used.plan_name = configured.plan_name
            /\ used.price = configured.price
            /\ used.data = configured.data
            /\ bench.fallback = configured
            /\ bench.stage = "extracted" =>
                 bench.plan_elements = PlanElements(bench.soup, used.plan_cards)

\* An extraction that took its cards with the selector of a candidate above
\* 0.5 where the configured selectors would have matched nothing, after an
\* analysis whose second candidate is at 0.5 or below.
C26_Witness ==
    /\ bench.stage = "extracted"
    /\ Len(bench.analysis.plan_containers) >= 2
    /\ 2 * bench.analysis.plan_containers[1].confidence.num
         > bench.analysis.plan_containers[1].confidence.den
    /\ bench.analysis.optimal_selectors.plan_cards
         # Config(bench.t).fallback_selectors.plan_cards
    /\ bench.plan_elements # << >>
    /\ PlanElements(bench.soup, Config(bench.t).fallback_selectors.plan_cards) = << >>

\* C27 as stated: a record whose lookup had a successful result (whose first
\* card has a rating, a review count and a link) is returned by
\* fetch_and_process_page with the parsed values in trustpilot_score,
\* trustpilot_reviews and trustpilot_url, not with None.
C27_EnrichedWhenLookupSucceeds ==
    \A k \in 1 .. Len(scrape.lookups) :
        scrape.lookups[k].outcome = "success" =>
            \A j \in 1 .. Len(scrape.all_records) :
                scrape.origin[j] = scrape.lookups[k].i =>
                    /\ scrape.all_records[j].trustpilot_score # None
                    /\ scrape.all_records[j].trustpilot_reviews # None
                    /\ scrape.all_records[j].trustpilot_url # None

\* C29: once a GET of a call was answered with 200, the call has returned a
\* body: that GET is the last one the call issued, and the sleeps the call
\* went through are those after the GETs before it.
C29_OkReturnsAtOnce ==
    LET n == Len(probe.outcomes)
    IN  "ok" \in Range(probe.outcomes) =>
            /\ probe.frame.status = "returned"
            /\ probe.frame.result \in PageIds
            /\ probe.outcomes[n] = "ok"
            /\ \A k \in 1 .. n - 1 : probe.outcomes[k] # "ok"
            /\ Len(probe.slept) = n - 1

\* A call that returned a body from its second GET, after one sleep, with a
\* third attempt left.
C29_Witness ==
    /\ probe.max_retries = 3
    /\ probe.frame.status = "returned"
    /\ probe.frame.result \in PageIds
    /\ probe.outcomes = <<"timeout", "ok">>
    /\ probe.slept = <<1>>

NoRepeat(q) == \A i, j \in 1 .. Len(q) : q[i] = q[j] => i = j

\* C30: at every point of crawl_website no URL has been checked twice,
\* visited_urls has at most max_pages members and urls_to_visit holds no URL
\* twice; and crawl_website returns.
C30_CrawlBoundedAndEnds ==
    /\ [](/\ NoRepeat(crawl.checked)
          /\ Cardinality(crawl.visited_urls) <= crawl.max_pages
          /\ NoRepeat(crawl.urls_to_visit))
    /\ <>(crawl.stage = "done")

\* The crawl returned at max_pages = 3 checked URLs, one of them broken,
\* with a URL still queued.
C30_Witness ==
    /\ crawl.stage = "done"
    /\ crawl.max_pages = 3
    /\ Len(crawl.checked) = 3
    /\ Len(crawl.broken_links) = 1
    /\ crawl.urls_to_visit # << >>

\* The names invocation p has in the records it returns.
ReturnedBy(p) ==
    {pages.inv[p].all_records[k] : k \in 1 .. Len(pages.inv[p].all_records)}

\* Within every invocation the returned records have pairwise distinct
\* names, none of which was in seen_names when the invocation was called.
DistinctWithinInvocation ==
    \A p \in DOMAIN pages.inv :
        /\ NoRepeat(pages.inv[p].all_records)
        /\ ReturnedBy(p) \cap pages.inv[p].seen_at_call = {}

\* C28 as stated: whatever the interleaving of the invocations that share
\* seen_names, no name is in the records of two of them, and within each of
\* them the returned names are distinct and were not in seen_names at its
\* call.
C28_NameReturnedOnce ==
    /\ DistinctWithinInvocation
    /\ \A p, q \in DOMAIN pages.inv : p # q => ReturnedBy(p) \cap ReturnedBy(q) = {}

====
